---- MODULE Spec2Model ----
(***************************************************************************)
(* Price collection pipeline of amazon-price-monitor: utils.extract_price, *)
(* scraper.parse_price_from_html, scraper.get_price_with_retries,          *)
(* scraper.get_price_stats, scraper.is_price_outlier, scraper.run_scraper. *)
(*                                                                         *)
(* Numbers.  A price is an integer count of thousandths of a real          *)
(* (Scale == 1000), so 158.00 is 158000.  Every text of the model has at   *)
(* most three fractional digits, so the count is exact.  None (Python's    *)
(* None) is the integer -1, which no parsed price can be.                  *)
(*                                                                         *)
(* Texts.  A text is a sequence of one-character strings.                  *)
(*                                                                         *)
(* Names.  No bound identifier or parameter of an operator takes the name  *)
(* of a state variable (i, price, prices, html, ...): TLC evaluates a      *)
(* constant definition once only when no such name occurs under it.        *)
(***************************************************************************)
EXTENDS Integers, Sequences, FiniteSets, TLC

Scale == 10 * 10 * 10
None == 0 - 1

Digits == {"0", "1", "2", "3", "4", "5", "6", "7", "8", "9"}
DigitSeq == <<"0", "1", "2", "3", "4", "5", "6", "7", "8", "9">>

IsDigit(c) == c \in Digits
DigitVal(c) == (CHOOSE n \in 1..10 : DigitSeq[n] = c) - 1

RECURSIVE NatOf(_)
NatOf(ds) ==
    IF ds = <<>> THEN 0
    ELSE 10 * NatOf(SubSeq(ds, 1, Len(ds) - 1)) + DigitVal(ds[Len(ds)])

RECURSIVE Pow10(_)
Pow10(n) == IF n = 0 THEN 1 ELSE 10 * Pow10(n - 1)

Count(s, c) == Len(SelectSeq(s, LAMBDA x : x = c))
IndexOf(s, c) == CHOOSE n \in 1..Len(s) : s[n] = c /\ \A j \in 1..(n - 1) : s[j] # c

Max(S) == CHOOSE x \in S : \A y \in S : y <= x
Min(S) == CHOOSE x \in S : \A y \in S : x <= y

(***************************************************************************)
(* str.replace(".", "").replace(",", "."), as utils.extract_price applies  *)
(* it to a regex match before float().                                     *)
(***************************************************************************)
CleanedKeepDots(m) ==
    [n \in 1..Len(m) |-> IF m[n] = "," THEN "." ELSE m[n]]
Cleaned(m) ==
    LET noDots == SelectSeq(m, LAMBDA x : x # ".")
    IN  [n \in 1..Len(noDots) |-> IF noDots[n] = "," THEN "." ELSE noDots[n]]

(***************************************************************************)
(* float(cleaned) for a string of digits and "."  : ValueError (None here) *)
(* unless there is at least one digit and at most one ".".                 *)
(***************************************************************************)
FloatOf(s) ==
    IF Count(s, ".") > 1 \/ \A n \in 1..Len(s) : ~IsDigit(s[n]) THEN None
    ELSE IF Count(s, ".") = 0 THEN NatOf(s) * Scale
    ELSE LET p == IndexOf(s, ".")
             whole == SubSeq(s, 1, p - 1)
             frac == SubSeq(s, p + 1, Len(s))
         IN  NatOf(whole) * Scale + NatOf(frac) * (Scale \div Pow10(Len(frac)))

\* A price is kept only when it is above 1 (value > 1, price > 1).
AboveOneLoose(v) == v > 0
AboveOne(v) == v > Scale

\* re.sub(r"\s+", " ", text)
RECURSIVE CollapseSpaces(_)
CollapseSpaces(t) ==
    IF Len(t) < 2 THEN t
    ELSE IF t[1] = " " /\ t[2] = " " THEN CollapseSpaces(Tail(t))
    ELSE <<t[1]>> \o CollapseSpaces(Tail(t))

\* First index >= i of t that is not c-class; Len(t)+1 when there is none.
RECURSIVE SkipWhile(_, _, _)
SkipWhile(t, pos, cls) ==
    IF pos <= Len(t) /\ t[pos] \in cls THEN SkipWhile(t, pos + 1, cls) ELSE pos

\* re.findall(r"R\$\s*([\d\.\,]+)", text): the captured groups, left to right.
RECURSIVE MarkedMatches(_, _)
MarkedMatches(t, pos) ==
    IF pos > Len(t) THEN <<>>
    ELSE IF t[pos] = "R" /\ pos + 1 <= Len(t) /\ t[pos + 1] = "$"
    THEN LET j == SkipWhile(t, pos + 2, {" "})
             k == SkipWhile(t, j, Digits \cup {".", ","})
         IN  IF k > j THEN <<SubSeq(t, j, k - 1)>> \o MarkedMatches(t, k)
             ELSE MarkedMatches(t, pos + 1)
    ELSE MarkedMatches(t, pos + 1)

\* re.findall(r"\d+(?:[\.,]\d+)?", text): the matches, left to right.
RECURSIVE NumberMatches(_, _)
NumberMatches(t, pos) ==
    IF pos > Len(t) THEN <<>>
    ELSE IF IsDigit(t[pos])
    THEN LET k == SkipWhile(t, pos, Digits)
             k2 == IF k + 1 <= Len(t) /\ t[k] \in {".", ","} /\ IsDigit(t[k + 1])
                   THEN SkipWhile(t, k + 1, Digits) ELSE k
         IN  <<SubSeq(t, pos, k2 - 1)>> \o NumberMatches(t, k2)
    ELSE NumberMatches(t, pos + 1)

\* The values float() gives for the matches, ValueError ones dropped.
ValuesOf(ms) == {FloatOf(Cleaned(ms[n])) : n \in 1..Len(ms)} \ {None}

\* The first match, in text order, whose value is above one; None without one.
RECURSIVE FirstAboveOne(_)
FirstAboveOne(ms) ==
    IF ms = <<>> THEN None
    ELSE LET v == FloatOf(Cleaned(Head(ms)))
         IN  IF v # None /\ AboveOne(v) THEN v ELSE FirstAboveOne(Tail(ms))

(***************************************************************************)
(* utils.extract_price(text): the largest "R$"-marked value above one; if  *)
(* there is none, the first unmarked number above one; else None.  The     *)
(* text None and the empty text are both <<>>.                             *)
(***************************************************************************)
extract_price_first_marked(text) ==
    IF text = <<>> THEN None
    ELSE LET t == CollapseSpaces(text)
             marked == MarkedMatches(t, 1)
             candidates == {v \in ValuesOf(marked) : AboveOne(v)}
         IN  IF candidates # {} THEN FirstAboveOne(marked)
             ELSE FirstAboveOne(NumberMatches(t, 1))
extract_price(text) ==
    IF text = <<>> THEN None
    ELSE LET t == CollapseSpaces(text)
             candidates == {v \in ValuesOf(MarkedMatches(t, 1)) : AboveOne(v)}
         IN  IF candidates # {} THEN Max(candidates)
             ELSE FirstAboveOne(NumberMatches(t, 1))


(***************************************************************************)
(* Documents.  The HTML a fetch returns is the sequence of its nodes that  *)
(* a selector of parse_price_from_html can see, in document order:         *)
(*   "block"     a span.a-price / div.a-price, with its a-price-whole,     *)
(*               a-price-fraction and a-offscreen spans (NoSpan: absent),  *)
(*               inside the container of price_containers_selectors[sel]   *)
(*               (sel = 0: inside none);                                   *)
(*   "span"      a span whose id is the id-th of the classic ids;          *)
(*   "offscreen" a span.a-offscreen outside every a-price;                 *)
(*   "text"      any other text.                                           *)
(***************************************************************************)
NoSpan == <<"<absent>">>
NumSelectors == 4
NumSpanIds == 4

Block(sel, whole, frac, off) ==
    [kind |-> "block", sel |-> sel, id |-> 0, whole |-> whole, frac |-> frac,
     off |-> off, text |-> <<>>]
IdSpan(id, text) ==
    [kind |-> "span", sel |-> 0, id |-> id, whole |-> NoSpan, frac |-> NoSpan,
     off |-> NoSpan, text |-> text]
Offscreen(text) ==
    [kind |-> "offscreen", sel |-> 0, id |-> 0, whole |-> NoSpan, frac |-> NoSpan,
     off |-> NoSpan, text |-> text]
PlainText(text) ==
    [kind |-> "text", sel |-> 0, id |-> 0, whole |-> NoSpan, frac |-> NoSpan,
     off |-> NoSpan, text |-> text]

\* str.strip() and "".join(ch for ch in raw if ch.isdigit())
RECURSIVE LStrip(_)
LStrip(t) == IF t # <<>> /\ Head(t) = " " THEN LStrip(Tail(t)) ELSE t
RECURSIVE RStrip(_)
RStrip(t) ==
    IF t # <<>> /\ t[Len(t)] = " " THEN RStrip(SubSeq(t, 1, Len(t) - 1)) ELSE t
Strip(t) == RStrip(LStrip(t))
OnlyDigits(t) == SelectSeq(t, IsDigit)

\* select_one: the first of the matching elements s; Default without one.
FirstOr(s, Default) == IF s = <<>> THEN Default ELSE Head(s)

(***************************************************************************)
(* _parse_price_from_price_block, from the first a-price-whole and the     *)
(* first a-price-fraction span of the block (NoSpan: select_one found      *)
(* none): digits of the whole part, "," and the digits of the fraction     *)
(* ("00" without any), read by extract_price.                              *)
(***************************************************************************)
BlockPriceStr(whole, frac) ==
    LET whole_digits == OnlyDigits(Strip(whole))
        fraction_digits ==
            IF frac # NoSpan /\ OnlyDigits(Strip(frac)) # <<>>
            THEN OnlyDigits(Strip(frac)) ELSE <<"0", "0">>
    IN  <<"R", "$", " ">> \o whole_digits \o <<",">> \o fraction_digits
parse_price_from_price_block(whole, frac) ==
    IF whole = NoSpan THEN None
    ELSE IF OnlyDigits(Strip(whole)) = <<>> THEN None
    ELSE LET value == extract_price(BlockPriceStr(whole, frac))
         IN  IF value # None /\ AboveOne(value) THEN value ELSE None

\* soup.select_one(sel) then block.select_one(...): the container's first spans.
ContainerNodes(doc, sel) == SelectSeq(doc, LAMBDA n : n.kind = "block" /\ n.sel = sel)
ContainerPrice(doc, sel) ==
    LET inside == ContainerNodes(doc, sel)
        w == FirstOr(SelectSeq(inside, LAMBDA n : n.whole # NoSpan),
                     Block(sel, NoSpan, NoSpan, NoSpan))
        f == FirstOr(SelectSeq(inside, LAMBDA n : n.frac # NoSpan),
                     Block(sel, NoSpan, NoSpan, NoSpan))
    IN  IF inside = <<>> THEN None
        ELSE parse_price_from_price_block(w.whole, f.frac)

\* span.get_text(strip=True) is truthy, then extract_price(span.get_text())
SpanPrice(text) ==
    IF text = NoSpan \/ Strip(text) = <<>> THEN None ELSE extract_price(text)

\* soup.get_text(" ", strip=True): every text piece stripped, empty ones
\* dropped, joined by one space.
NodePieces(n) ==
    LET raw == IF n.kind = "block" THEN <<n.off, n.whole, n.frac>> ELSE <<n.text>>
    IN  SelectSeq(raw, LAMBDA t : t # NoSpan /\ Strip(t) # <<>>)
RECURSIVE JoinPieces(_)
JoinPieces(ps) ==
    IF ps = <<>> THEN <<>>
    ELSE IF Len(ps) = 1 THEN Strip(ps[1])
    ELSE Strip(ps[1]) \o <<" ">> \o JoinPieces(Tail(ps))
RECURSIVE AllPieces(_)
AllPieces(doc) ==
    IF doc = <<>> THEN <<>> ELSE NodePieces(Head(doc)) \o AllPieces(Tail(doc))
PageText(doc) == JoinPieces(AllPieces(doc))

\* candidates, in the order parse_price_from_html appends them; a strategy
\* that finds nothing contributes None, dropped by Keep.
Keep(found) == SelectSeq(found, LAMBDA p : p # None /\ AboveOne(p))
Candidates(doc) ==
    LET blocks == SelectSeq(doc, LAMBDA n : n.kind = "block")
        none == PlainText(<<>>)
        s1 == [sel \in 1..NumSelectors |-> ContainerPrice(doc, sel)]
        s2 == [b \in 1..Len(blocks) |->
                  parse_price_from_price_block(blocks[b].whole, blocks[b].frac)]
        s3 == [id \in 1..NumSpanIds |->
                  SpanPrice(FirstOr(SelectSeq(doc, LAMBDA n : n.kind = "span" /\ n.id = id),
                                    none).text)]
        s4 == <<SpanPrice(FirstOr(SelectSeq(doc, LAMBDA n : n.kind = "block" /\ n.off # NoSpan),
                                  Block(0, NoSpan, NoSpan, NoSpan)).off)>>
        first5 == FirstOr(SelectSeq(doc, LAMBDA n : (n.kind = "block" /\ n.off # NoSpan)
                                                     \/ n.kind = "offscreen"), none)
        s5 == <<SpanPrice(IF first5.kind = "block" THEN first5.off ELSE first5.text)>>
        s6 == <<extract_price(PageText(doc))>>
    IN  Keep(s1) \o Keep(s2) \o Keep(s3) \o Keep(s4) \o Keep(s5) \o Keep(s6)

\* min(candidates) of a pool, None for the empty pool
BestOf(pool) ==
    IF pool = <<>> THEN None ELSE Min({pool[n] : n \in 1..Len(pool)})

parse_price_from_html(doc) == BestOf(Candidates(doc))


(***************************************************************************)
(* Storage.  prices is the prices table in rowid order; a row is           *)
(* [id, product_id, price, date], id the AUTOINCREMENT key, price None for *)
(* NULL, date the timestamp as an integer (ISO-8601 strings of one format  *)
(* order as their instants).  The products table is the ids 1..products,   *)
(* in SELECT order.                                                        *)
(***************************************************************************)
Row(id, pid, value, date) ==
    [id |-> id, product_id |-> pid, price |-> value, date |-> date]

RECURSIVE SumTo(_, _)
SumTo(s, n) == IF n = 0 THEN 0 ELSE s[n] + SumTo(s, n - 1)

\* The k-th smallest element of the non-empty sequence s (sorted(s)[k]).
KthSmallest(s, k) ==
    CHOOSE v \in {s[j] : j \in 1..Len(s)} :
        /\ Cardinality({j \in 1..Len(s) : s[j] < v}) < k
        /\ k <= Cardinality({j \in 1..Len(s) : s[j] <= v})

Window == 30
MinSamples == 3
NoStats == [count |-> 0, median |-> 0, sum |-> 0, min |-> 0, max |-> 0]

\* statistics.median: the middle value, or the mean of the two middle values.
\* Stored prices are whole hundredths, so that mean is a whole thousandth.
MedianOf(s) ==
    LET n == Len(s)
    IN  IF n % 2 = 1 THEN KthSmallest(s, (n + 1) \div 2)
        ELSE (KthSmallest(s, n \div 2) + KthSmallest(s, n \div 2 + 1)) \div 2

(***************************************************************************)
(* get_price_stats(conn, product_id): the SELECT (price IS NOT NULL, ORDER *)
(* BY date DESC, LIMIT 30), then the Python filter r[0] > 0, then None     *)
(* (NoStats) under 3 values.  A row is within the LIMIT when fewer than 30 *)
(* selected rows come before it in the ORDER BY (equal dates in rowid      *)
(* order).  The statistics do not depend on the order of the values, kept  *)
(* here in rowid order.  mean is kept as sum (mean = sum / count).         *)
(***************************************************************************)
StatsRowsAnyProduct(table, pid) ==
    LET selected == SelectSeq(table, LAMBDA r : r.price # None)
        Before(r) ==
            {k \in 1..Len(selected) :
                \/ selected[k].date > r.date
                \/ selected[k].date = r.date /\ selected[k].id < r.id}
        limited == SelectSeq(selected, LAMBDA r : Cardinality(Before(r)) < Window)
        positive == SelectSeq(limited, LAMBDA r : r.price > 0)
    IN  [k \in 1..Len(positive) |-> positive[k].price]
StatsRowsUnfiltered(table, pid) ==
    LET selected == SelectSeq(table, LAMBDA r : r.product_id = pid /\ r.price # None)
        Before(r) ==
            {k \in 1..Len(selected) :
                \/ selected[k].date > r.date
                \/ selected[k].date = r.date /\ selected[k].id < r.id}
        limited == SelectSeq(selected, LAMBDA r : Cardinality(Before(r)) < Window)
    IN  [k \in 1..Len(limited) |-> limited[k].price]
StatsRows(table, pid) ==
    LET selected == SelectSeq(table, LAMBDA r : r.product_id = pid /\ r.price # None)
        Before(r) ==
            {k \in 1..Len(selected) :
                \/ selected[k].date > r.date
                \/ selected[k].date = r.date /\ selected[k].id < r.id}
        limited == SelectSeq(selected, LAMBDA r : Cardinality(Before(r)) < Window)
        positive == SelectSeq(limited, LAMBDA r : r.price > 0)
    IN  [k \in 1..Len(positive) |-> positive[k].price]

get_price_stats_of_any(table, pid) ==
    LET rows == StatsRows(table, pid)
    IN  IF Len(rows) < 1 THEN NoStats
        ELSE [count |-> Len(rows), median |-> MedianOf(rows),
              sum |-> SumTo(rows, Len(rows)),
              min |-> Min({rows[k] : k \in 1..Len(rows)}),
              max |-> Max({rows[k] : k \in 1..Len(rows)})]
get_price_stats(table, pid) ==
    LET rows == StatsRows(table, pid)
    IN  IF Len(rows) < MinSamples THEN NoStats
        ELSE [count |-> Len(rows), median |-> MedianOf(rows),
              sum |-> SumTo(rows, Len(rows)),
              min |-> Min({rows[k] : k \in 1..Len(rows)}),
              max |-> Max({rows[k] : k \in 1..Len(rows)})]

(***************************************************************************)
(* is_price_outlier(new_price, stats) with up_factor = 3.0 and             *)
(* down_factor = 0.33: new_price > median * 3.0 or new_price < median *    *)
(* 0.33, the latter as 100 * new_price < 33 * median.  The code compares   *)
(* with the double products median * 3.0 and median * 0.33; for the        *)
(* medians of the model (100.00, 200.00, 300.00, 500.00) these products    *)
(* are exact, so the integer comparison decides as the doubles do.  For    *)
(* other medians the double product can fall beside the decimal bound      *)
(* (10.0 * 0.33 is 3.3000000000000003).                                    *)
(***************************************************************************)
UpFactor == 3
DownFactorPct == 33
is_price_outlier_inclusive(new_price, stats) ==
    IF stats = NoStats THEN FALSE
    ELSE IF stats.median <= 0 THEN FALSE
    ELSE IF new_price >= stats.median * UpFactor THEN TRUE
    ELSE IF 100 * new_price <= DownFactorPct * stats.median THEN TRUE
    ELSE FALSE
is_price_outlier(new_price, stats) ==
    IF stats = NoStats THEN FALSE
    ELSE IF stats.median <= 0 THEN FALSE
    ELSE IF new_price > stats.median * UpFactor THEN TRUE
    ELSE IF 100 * new_price < DownFactorPct * stats.median THEN TRUE
    ELSE FALSE

(***************************************************************************)
(* float(round(price, 2)).  Below half a hundredth rounds down, above it   *)
(* up; an exact binary tie (a multiple of 0.125) goes to the even          *)
(* hundredth.  The model's texts hold no other value ending in 5           *)
(* thousandths (there the double nearest the decimal decides).             *)
(***************************************************************************)
Round2(v) ==
    LET r == v % 10
        down == v - r
    IN  IF r < 5 THEN down
        ELSE IF r > 5 THEN down + 10
        ELSE IF (down \div 10) % 2 = 0 THEN down ELSE down + 10


(***************************************************************************)
(* Texts and documents of the model.                                       *)
(***************************************************************************)
RS == <<"R", "$">>
SP == <<" ">>
N158 == <<"1", "5", "8", ",", "0", "0">>
N2116 == <<"2", ".", "1", "1", "6", ",", "0", "5">>
N1234 == <<"1", ".", "2", "3", "4", ",", "5", "6">>
N050 == <<"0", ",", "5", "0">>
N100 == <<"1", "0", "0", ",", "0", "0">>
N500 == <<"5", "0", "0", ",", "0", "0">>
N1004 == <<"1", ",", "0", "0", "4">>

NodePool ==
    { Block(1, <<"1", "5", "8", ",">>, <<"0", "0">>, RS \o SP \o N158),
      Block(1, <<"2", ".", "1", "1", "6">>, <<"0", "5">>, NoSpan),
      Block(0, <<"2", ".", "1", "1", "6", ",">>, <<"0", "5">>, RS \o SP \o N2116),
      Block(0, <<"0">>, <<"9", "9">>, NoSpan),
      Block(2, <<"1", "5", "8">>, NoSpan, NoSpan),
      Block(0, NoSpan, NoSpan, RS \o SP \o N158),
      IdSpan(1, SP \o RS \o SP \o N158 \o SP),
      IdSpan(2, RS \o SP \o N2116 \o SP \o RS \o SP \o N158),
      Offscreen(RS \o N2116),
      PlainText(RS \o SP \o N2116),
      PlainText(RS \o SP \o N158),
      PlainText(RS \o SP \o N050),
      PlainText(RS \o SP \o N1234),
      PlainText(<<"x", " ", " ", "3">>) }

MaxNodes == 2
RECURSIVE DocsOfLen(_)
DocsOfLen(n) ==
    IF n = 0 THEN {<<>>}
    ELSE {Append(d, x) : d \in DocsOfLen(n - 1), x \in NodePool}
Docs == UNION {DocsOfLen(n) : n \in 0..MaxNodes}

\* What a fetch of a round can return: requests raising (fetch_html gives
\* None), an empty body, or one of four pages.
PageNoPrice == <<PlainText(<<"x">>)>>
Page100 == <<Block(1, <<"1", "0", "0", ",">>, <<"0", "0">>, RS \o SP \o N100)>>
Page500 == <<Block(1, <<"5", "0", "0", ",">>, <<"0", "0">>, RS \o SP \o N500),
             Block(0, <<"2", ".", "1", "1", "6", ",">>, <<"0", "5">>, NoSpan)>>
Page1004 == <<PlainText(RS \o SP \o N1004)>>
RoundPages == {PageNoPrice, Page100, Page500, Page1004}
\* parse_price_from_html on each page of a round, computed once.
PagePrices == {<<d, parse_price_from_html(d)>> : d \in RoundPages}
PriceOfPage(d) == (CHOOSE e \in PagePrices : e[1] = d)[2]
Response(status, doc) == [status |-> status, doc |-> doc]
NoResponse == Response("error", <<>>)
FetchResults ==
    {NoResponse, Response("empty", <<>>)}
        \cup {Response("page", d) : d \in RoundPages}
\* "if not html": None and "" alike
Falsy(r) == r.status # "page"

NumProducts == 3
Attempts == 3
UseOutlierFilter == TRUE

\* The prices table a round can start from, left by earlier invocations at
\* times 1, 2 and 3: empty; three accepted samples of 100.00 for product 1;
\* samples of products 1 (median 100.00) and 2 (median 500.00) with a
\* NULL price among them, as dashboard.scrape_single_product inserts; or
\* four rows of product 1 of which two have a price above zero.
History100 ==
    <<Row(1, 1, 100 * Scale, 1), Row(2, 1, 100 * Scale, 2), Row(3, 1, 100 * Scale, 3)>>
HistoryMixed ==
    <<Row(1, 2, 500 * Scale, 1), Row(2, 1, 100 * Scale, 1), Row(3, 1, None, 2),
      Row(4, 2, 500 * Scale, 2), Row(5, 1, 100 * Scale, 2), Row(6, 2, 2116050, 3),
      Row(7, 1, 500 * Scale, 3)>>
HistoryShort ==
    <<Row(1, 1, 100 * Scale, 1), Row(2, 1, None, 2), Row(3, 1, 0, 2),
      Row(4, 1, 100 * Scale, 3)>>
InitTables == {<<>>, History100, HistoryMixed, HistoryShort}
\* The latest date of a table (0 for the empty one): the clock starts there.
LastDate(table) == Max({0} \cup {table[n].date : n \in 1..Len(table)})

VARIABLES
    products,     \* number of rows of the products table (ids 1..products)
    prices,       \* the prices table
    clock,        \* the wall clock, in delays of get_price_with_retries
    rounds,       \* invocations of run_scraper so far
    pc,           \* where run_scraper is: idle (not started), fetch, parse, sleep,
                  \* returned, insert, done (it returned), raised (an exception
                  \* left it)
    now,          \* now_str of the round
    idx,          \* position in products of the product being processed
    i,            \* the attempt of get_price_with_retries
    html,         \* the response fetch_html returned in this attempt
    price,        \* the value get_price_with_retries returned
    sucessos, falhas, outliers,
    nFetch, nParse, nSleep,   \* fetches, extractions and sleeps of this call
    succAttempt,  \* the attempt whose extraction was valid (0: none)
    outcome,      \* per product, the branch the round took: none, ok, failed, outlier
    fetchOk,      \* per product, whether a fetch of this round returned a page
    startLen,     \* Len(prices) when the round started
    exDoc, exPool, exResult, exDone,  \* one call of parse_price_from_html
    callArgs,     \* the arguments of one call of a pure function (RepeatSpec:
                  \* the size of the prices table at each call)
    callResult    \* <<>> before the call, then the value(s) returned

roundVars == <<products, prices, clock, rounds, pc, now, idx, i, html, price,
               sucessos, falhas, outliers, nFetch, nParse, nSleep, succAttempt,
               outcome, fetchOk, startLen>>
exVars == <<exDoc, exPool, exResult, exDone, callArgs, callResult>>
vars == <<roundVars, exVars>>

ProductIds == 1..products
NoOutcomes == [p \in 1..NumProducts |-> "none"]

CallIdle == callArgs = <<>> /\ callResult = <<>>
ExIdle == exDoc = <<>> /\ exPool = <<>> /\ exResult = None /\ exDone = FALSE /\ CallIdle
RoundIdle ==
    /\ clock = LastDate(prices) /\ rounds = 0 /\ pc = "idle" /\ now = 0 /\ idx = 0 /\ i = 0
    /\ html = NoResponse /\ price = None
    /\ sucessos = 0 /\ falhas = 0 /\ outliers = 0
    /\ nFetch = 0 /\ nParse = 0 /\ nSleep = 0 /\ succAttempt = 0
    /\ outcome = NoOutcomes /\ fetchOk = [p \in 1..NumProducts |-> FALSE]
    /\ startLen = Len(prices)

Init ==
    /\ products \in 0..NumProducts
    /\ prices \in InitTables
    /\ RoundIdle
    /\ ExIdle

\* get_price_with_retries(url) is entered for the product at position k.
BeginCall(k) ==
    /\ idx' = k
    /\ i' = 1
    /\ html' = NoResponse
    /\ price' = None
    /\ nFetch' = 0 /\ nParse' = 0 /\ nSleep' = 0 /\ succAttempt' = 0
    /\ pc' = "fetch"

\* run_scraper up to the first product: ensure_schema, the SELECT of the
\* products, the early return without products, the round's timestamp.
StartRound ==
    /\ pc = "idle"
    /\ rounds' = rounds + 1
    /\ IF products = 0
       THEN /\ pc' = "done"
            /\ UNCHANGED <<clock, now, idx, i, html, price, sucessos, falhas, outliers,
                           nFetch, nParse, nSleep, succAttempt, outcome, fetchOk,
                           startLen>>
       ELSE /\ clock' = clock + 1
            /\ now' = clock + 1
            /\ sucessos' = 0 /\ falhas' = 0 /\ outliers' = 0
            /\ outcome' = NoOutcomes
            /\ fetchOk' = [p \in 1..NumProducts |-> FALSE]
            /\ startLen' = Len(prices)
            /\ BeginCall(1)
    /\ UNCHANGED <<products, prices, exVars>>

\* html = fetch_html(url); "if not html: time.sleep(delay); continue" is Sleep.
Fetch ==
    /\ pc = "fetch"
    /\ \E r \in FetchResults :
          /\ html' = IF Falsy(r) THEN NoResponse ELSE r
          /\ pc' = IF Falsy(r) THEN "sleep" ELSE "parse"
          /\ fetchOk' = IF Falsy(r) THEN fetchOk ELSE [fetchOk EXCEPT ![idx] = TRUE]
    /\ nFetch' = nFetch + 1
    /\ UNCHANGED <<products, prices, clock, rounds, now, idx, i, price, sucessos,
                   falhas, outliers, nParse, nSleep, succAttempt, outcome, startLen,
                   exVars>>

\* price = parse_price_from_html(html); a valid price is returned rounded.
ParseNoReturn ==
    /\ pc = "parse"
    /\ html' = NoResponse
    /\ nParse' = nParse + 1
    /\ LET p == PriceOfPage(html.doc)
       IN  /\ price' = IF p # None /\ AboveOne(p) THEN Round2(p) ELSE price
           /\ succAttempt' = IF p # None /\ AboveOne(p) THEN i ELSE succAttempt
    /\ pc' = "sleep"
    /\ UNCHANGED <<products, prices, clock, rounds, now, idx, i, sucessos,
                   falhas, outliers, nFetch, nSleep, outcome, fetchOk, startLen,
                   exVars>>
Parse ==
    /\ pc = "parse"
    /\ html' = NoResponse
    /\ nParse' = nParse + 1
    /\ LET p == PriceOfPage(html.doc)
       IN  IF p # None /\ AboveOne(p)
           THEN /\ price' = Round2(p)
                /\ succAttempt' = i
                /\ pc' = "returned"
           ELSE /\ pc' = "sleep"
                /\ UNCHANGED <<price, succAttempt>>
    /\ UNCHANGED <<products, prices, clock, rounds, now, idx, i, sucessos,
                   falhas, outliers, nFetch, nSleep, outcome, fetchOk, startLen,
                   exVars>>

\* time.sleep(delay): the clock advances by one delay; then the next attempt
\* of range(1, attempts + 1), or "return None" after the last.
SleepSkipsLast ==
    /\ pc = "sleep"
    /\ html' = NoResponse
    /\ IF i < Attempts
       THEN /\ i' = i + 1 /\ pc' = "fetch" /\ UNCHANGED price
            /\ nSleep' = nSleep + 1 /\ clock' = clock + 1
       ELSE /\ i' = i /\ pc' = "returned" /\ price' = None
            /\ UNCHANGED <<nSleep, clock>>
    /\ UNCHANGED <<products, prices, rounds, now, idx, sucessos,
                   falhas, outliers, nFetch, nParse, succAttempt, outcome, fetchOk,
                   startLen, exVars>>
SleepOneMore ==
    /\ pc = "sleep"
    /\ html' = NoResponse
    /\ nSleep' = nSleep + 1
    /\ clock' = clock + 1
    /\ IF i < Attempts + 1
       THEN i' = i + 1 /\ pc' = "fetch" /\ UNCHANGED price
       ELSE i' = i /\ pc' = "returned" /\ price' = None
    /\ UNCHANGED <<products, prices, rounds, now, idx, sucessos,
                   falhas, outliers, nFetch, nParse, succAttempt, outcome, fetchOk,
                   startLen, exVars>>
Sleep ==
    /\ pc = "sleep"
    /\ html' = NoResponse
    /\ nSleep' = nSleep + 1
    /\ clock' = clock + 1
    /\ IF i < Attempts
       THEN i' = i + 1 /\ pc' = "fetch" /\ UNCHANGED price
       ELSE i' = i /\ pc' = "returned" /\ price' = None
    /\ UNCHANGED <<products, prices, rounds, now, idx, sucessos,
                   falhas, outliers, nFetch, nParse, succAttempt, outcome, fetchOk,
                   startLen, exVars>>

\* The for loop of run_scraper goes to the next product, or ends: conn.close()
\* and the summary.
AdvanceSkipsOne ==
    IF idx + 1 < products
    THEN BeginCall(idx + 2)
    ELSE /\ pc' = "done"
         /\ nFetch' = 0 /\ nParse' = 0 /\ nSleep' = 0 /\ succAttempt' = 0
         /\ UNCHANGED <<idx, i, html, price>>
Advance ==
    IF idx < products
    THEN BeginCall(idx + 1)
    ELSE /\ pc' = "done"
         /\ nFetch' = 0 /\ nParse' = 0 /\ nSleep' = 0 /\ succAttempt' = 0
         /\ UNCHANGED <<idx, i, html, price>>
EndRoundEarly ==
    /\ pc' = "done"
    /\ nFetch' = 0 /\ nParse' = 0 /\ nSleep' = 0 /\ succAttempt' = 0
    /\ UNCHANGED <<idx, i, html, price>>

\* "if price is None: falhas += 1; continue"
HandleFailureWritesNull ==
    /\ pc = "returned" /\ price = None
    /\ falhas' = falhas + 1
    /\ outcome' = [outcome EXCEPT ![idx] = "failed"]
    /\ prices' = Append(prices, Row(Len(prices) + 1, idx, None, now))
    /\ Advance
    /\ UNCHANGED <<products, clock, rounds, now, sucessos, outliers, fetchOk,
                   startLen, exVars>>
HandleFailureUncounted ==
    /\ pc = "returned" /\ price = None
    /\ outcome' = [outcome EXCEPT ![idx] = "failed"]
    /\ Advance
    /\ UNCHANGED <<products, prices, clock, rounds, now, sucessos, falhas, outliers,
                   fetchOk, startLen, exVars>>
HandleFailureRaises ==
    /\ pc = "returned" /\ price = None
    /\ pc' = "raised"
    /\ UNCHANGED <<products, prices, clock, rounds, now, idx, i, html, price, sucessos,
                   falhas, outliers, nFetch, nParse, nSleep, succAttempt, outcome,
                   fetchOk, startLen, exVars>>
HandleFailureAborts ==
    /\ pc = "returned" /\ price = None
    /\ falhas' = falhas + 1
    /\ outcome' = [outcome EXCEPT ![idx] = "failed"]
    /\ EndRoundEarly
    /\ UNCHANGED <<products, prices, clock, rounds, now, sucessos, outliers, fetchOk,
                   startLen, exVars>>
HandleFailure ==
    /\ pc = "returned" /\ price = None
    /\ falhas' = falhas + 1
    /\ outcome' = [outcome EXCEPT ![idx] = "failed"]
    /\ Advance
    /\ UNCHANGED <<products, prices, clock, rounds, now, sucessos, outliers, fetchOk,
                   startLen, exVars>>

\* The outlier filter: "stats = get_price_stats(conn, pid); if
\* is_price_outlier(price, stats): outliers += 1; continue".
CheckOutlierRecords ==
    /\ pc = "returned" /\ price # None
    /\ IF UseOutlierFilter /\ is_price_outlier(price, get_price_stats(prices, idx))
       THEN /\ outliers' = outliers + 1
            /\ outcome' = [outcome EXCEPT ![idx] = "outlier"]
            /\ prices' = Append(prices, Row(Len(prices) + 1, idx, price, now))
            /\ Advance
       ELSE /\ pc' = "insert"
            /\ UNCHANGED <<prices, outliers, outcome, idx, i, html, price, nFetch, nParse,
                           nSleep, succAttempt>>
    /\ UNCHANGED <<products, clock, rounds, now, sucessos, falhas, fetchOk,
                   startLen, exVars>>
CheckOutlierCountsAndStores ==
    /\ pc = "returned" /\ price # None
    /\ IF UseOutlierFilter /\ is_price_outlier(price, get_price_stats(prices, idx))
       THEN /\ outliers' = outliers + 1
            /\ outcome' = [outcome EXCEPT ![idx] = "outlier"]
       ELSE UNCHANGED <<outliers, outcome>>
    /\ pc' = "insert"
    /\ UNCHANGED <<idx, i, html, price, nFetch, nParse, nSleep, succAttempt>>
    /\ UNCHANGED <<products, prices, clock, rounds, now, sucessos, falhas, fetchOk,
                   startLen, exVars>>
CheckOutlier ==
    /\ pc = "returned" /\ price # None
    /\ IF UseOutlierFilter /\ is_price_outlier(price, get_price_stats(prices, idx))
       THEN /\ outliers' = outliers + 1
            /\ outcome' = [outcome EXCEPT ![idx] = "outlier"]
            /\ Advance
       ELSE /\ pc' = "insert"
            /\ UNCHANGED <<outliers, outcome, idx, i, html, price, nFetch, nParse,
                           nSleep, succAttempt>>
    /\ UNCHANGED <<products, prices, clock, rounds, now, sucessos, falhas, fetchOk,
                   startLen, exVars>>

\* The INSERT and conn.commit() succeed: "sucessos += 1".
InsertUncounted ==
    /\ pc = "insert"
    /\ prices' = Append(prices, Row(Len(prices) + 1, idx, price, now))
    /\ outcome' = [outcome EXCEPT ![idx] = "ok"]
    /\ Advance
    /\ UNCHANGED <<products, clock, rounds, now, sucessos, falhas, outliers, fetchOk,
                   startLen, exVars>>
InsertThenWaits ==
    /\ pc = "insert"
    /\ prices' = Append(prices, Row(Len(prices) + 1, idx, price, now))
    /\ sucessos' = sucessos + 1
    /\ outcome' = [outcome EXCEPT ![idx] = "ok"]
    /\ clock' = clock + 1
    /\ Advance
    /\ UNCHANGED <<products, rounds, now, falhas, outliers, fetchOk,
                   startLen, exVars>>
InsertReplaces ==
    /\ pc = "insert"
    /\ prices' =
          IF \E k \in 1..Len(prices) : prices[k].product_id = idx
          THEN LET last == Max({k \in 1..Len(prices) : prices[k].product_id = idx})
               IN  [prices EXCEPT ![last] = Row(last, idx, price, now)]
          ELSE Append(prices, Row(Len(prices) + 1, idx, price, now))
    /\ sucessos' = sucessos + 1
    /\ outcome' = [outcome EXCEPT ![idx] = "ok"]
    /\ Advance
    /\ UNCHANGED <<products, clock, rounds, now, falhas, outliers, fetchOk,
                   startLen, exVars>>
InsertStampsClock ==
    /\ pc = "insert"
    /\ prices' = Append(prices, Row(Len(prices) + 1, idx, price, clock))
    /\ sucessos' = sucessos + 1
    /\ outcome' = [outcome EXCEPT ![idx] = "ok"]
    /\ Advance
    /\ UNCHANGED <<products, clock, rounds, now, falhas, outliers, fetchOk,
                   startLen, exVars>>
Insert ==
    /\ pc = "insert"
    /\ prices' = Append(prices, Row(Len(prices) + 1, idx, price, now))
    /\ sucessos' = sucessos + 1
    /\ outcome' = [outcome EXCEPT ![idx] = "ok"]
    /\ Advance
    /\ UNCHANGED <<products, clock, rounds, now, falhas, outliers, fetchOk,
                   startLen, exVars>>

\* The INSERT or conn.commit() raises sqlite3.Error; nothing in run_scraper
\* catches it, the uncommitted row is lost and the exception leaves the round.
InsertRaises ==
    /\ pc = "insert"
    /\ pc' = "raised"
    /\ UNCHANGED <<products, prices, clock, rounds, now, idx, i, html, price, sucessos,
                   falhas, outliers, nFetch, nParse, nSleep, succAttempt, outcome,
                   fetchOk, startLen, exVars>>

RoundStep ==
    \/ Fetch
    \/ Parse
    \/ Sleep
    \/ HandleFailure
    \/ CheckOutlier
    \/ Insert

NextNoFault ==
    \/ StartRound
    \/ RoundStep

Next ==
    \/ StartRound
    \/ Fetch
    \/ Parse
    \/ Sleep
    \/ HandleFailure
    \/ CheckOutlier
    \/ Insert
    \/ InsertRaises

Spec == Init /\ [][Next]_vars

\* The round with a storage that accepts every write, under the scheduling of
\* a sequential program: a step that can be taken is taken.
LiveSpec == Init /\ [][NextNoFault]_vars /\ WF_vars(RoundStep)

(***************************************************************************)
(* parse_price_from_html called again and again on one document, at any    *)
(* moment before, during and after a round of one product that fetches     *)
(* and parses other pages and writes to the storage.  callResult collects  *)
(* the values the calls returned, callArgs the number of rows the prices   *)
(* table held at each call.                                                *)
(***************************************************************************)
MaxCalls == 3

RepeatInit ==
    /\ products = 1
    /\ prices \in {<<>>, History100}
    /\ RoundIdle
    /\ exDoc \in RoundPages
    /\ exPool = <<>> /\ exResult = None /\ exDone = FALSE
    /\ CallIdle

ExtractAgainRemembering ==
    /\ Len(callResult) < MaxCalls
    /\ exPool' = Candidates(exDoc)
    /\ exResult' = IF price # None THEN price ELSE parse_price_from_html(exDoc)
    /\ exDone' = TRUE
    /\ callResult' = Append(callResult, exResult')
    /\ callArgs' = Append(callArgs, Len(prices))
    /\ UNCHANGED <<exDoc, roundVars>>
ExtractAgain ==
    /\ Len(callResult) < MaxCalls
    /\ exPool' = Candidates(exDoc)
    /\ exResult' = parse_price_from_html(exDoc)
    /\ exDone' = TRUE
    /\ callResult' = Append(callResult, exResult')
    /\ callArgs' = Append(callArgs, Len(prices))
    /\ UNCHANGED <<exDoc, roundVars>>

RepeatNext ==
    \/ StartRound
    \/ RoundStep
    \/ ExtractAgain

RepeatSpec == RepeatInit /\ [][RepeatNext]_vars

(***************************************************************************)
(* The price parsers on their own, on the texts of amounts.  An amount of  *)
(* c hundredths is written as on the pages: "R$ ", the integer part in     *)
(* groups of three digits separated by ".", "," and two fractional digits. *)
(* The price block of that amount has the grouped integer part in its      *)
(* a-price-whole span and the two digits in its a-price-fraction span.     *)
(***************************************************************************)
MaxSmall == 12
MaxGroup == 3

RECURSIVE DigitsOf(_)
DigitsOf(n) ==
    IF n < 10 THEN <<DigitSeq[n + 1]>>
    ELSE DigitsOf(n \div 10) \o <<DigitSeq[(n % 10) + 1]>>
ThreeDigits(n) ==
    <<DigitSeq[(n \div 100) + 1], DigitSeq[((n \div 10) % 10) + 1], DigitSeq[(n % 10) + 1]>>
RECURSIVE Grouped(_)
Grouped(n) ==
    IF n < 1000 THEN DigitsOf(n)
    ELSE Grouped(n \div 1000) \o <<".">> \o ThreeDigits(n % 1000)
TwoDigits(n) == <<DigitSeq[(n \div 10) + 1], DigitSeq[(n % 10) + 1]>>
PriceString(c) == RS \o SP \o Grouped(c \div 100) \o <<",">> \o TwoDigits(c % 100)

IntegerParts ==
    (0..MaxSmall)
        \cup {g * 1000 + r : g \in 1..MaxGroup, r \in {0, 1, 10, 99, 100, 234, 999}}
        \cup {1000000, 1234567, 2000999}
Amounts == {n * 100 + f : n \in IntegerParts, f \in 0..99}

PriceStringInit ==
    /\ products = 0 /\ prices = <<>> /\ RoundIdle
    /\ exDoc = <<>> /\ exPool = <<>> /\ exResult = None /\ exDone = FALSE
    /\ callArgs \in {<<c>> : c \in Amounts}
    /\ callResult = <<>>

PriceStringCall ==
    /\ callResult = <<>>
    /\ callResult' =
          <<extract_price(PriceString(callArgs[1])),
            parse_price_from_price_block(Grouped(callArgs[1] \div 100),
                                         TwoDigits(callArgs[1] % 100))>>
    /\ UNCHANGED <<callArgs, exDoc, exPool, exResult, exDone, roundVars>>

PriceStringSpec == PriceStringInit /\ [][PriceStringCall]_vars

(***************************************************************************)
(* extract_price on its own, on texts of several prices.  A text is up to  *)
(* MaxPieces pieces separated by one space.  A piece is a price text; with *)
(* it go the values its "R$"-marked numbers denote and the values of its   *)
(* numbers as the fallback reads them: a run of digits with at most one    *)
(* "." or "," and a further run of digits, so that the unmarked "1.234,56" *)
(* there is 1234 and then 56.                                              *)
(***************************************************************************)
MaxPieces == 3

Piece(text, marked, numbers) == [text |-> text, marked |-> marked, numbers |-> numbers]
PiecePool ==
    {Piece(RS \o SP \o N158, <<158 * Scale>>, <<158 * Scale>>),
     Piece(RS \o N2116, <<2116050>>, <<2116 * Scale, 5 * Scale>>),
     Piece(RS \o SP \o N1234, <<1234560>>, <<1234 * Scale, 56 * Scale>>),
     Piece(RS \o SP \o N050, <<500>>, <<500>>),
     Piece(RS \o SP \o <<"1", ",", "0", "0">>, <<Scale>>, <<Scale>>),
     Piece(N500, <<>>, <<500 * Scale>>),
     Piece(<<"7">>, <<>>, <<7 * Scale>>),
     Piece(<<"0", ",", "5">>, <<>>, <<500>>),
     Piece(N1234, <<>>, <<1234 * Scale, 56 * Scale>>),
     Piece(<<"x">>, <<>>, <<>>)}
PieceSeqs == UNION {[1..n -> PiecePool] : n \in 0..MaxPieces}

RECURSIVE TextOfPieces(_)
TextOfPieces(ps) ==
    IF ps = <<>> THEN <<>>
    ELSE IF Len(ps) = 1 THEN ps[1].text
    ELSE ps[1].text \o SP \o TextOfPieces(Tail(ps))

TextInit ==
    /\ products = 0 /\ prices = <<>> /\ RoundIdle
    /\ exDoc = <<>> /\ exPool = <<>> /\ exResult = None /\ exDone = FALSE
    /\ callArgs \in PieceSeqs
    /\ callResult = <<>>

TextCall ==
    /\ callResult = <<>>
    /\ callResult' = <<extract_price(TextOfPieces(callArgs))>>
    /\ UNCHANGED <<callArgs, exDoc, exPool, exResult, exDone, roundVars>>

TextSpec == TextInit /\ [][TextCall]_vars

(***************************************************************************)
(* Round after round: the script is run again after run_scraper returned   *)
(* (scraper.py is a script whose main block calls run_scraper once), on    *)
(* the storage the earlier runs left, for one registered product.          *)
(***************************************************************************)
MaxRounds == 3

RunAgain ==
    /\ pc = "done"
    /\ rounds < MaxRounds
    /\ pc' = "idle"
    /\ UNCHANGED <<products, prices, clock, rounds, now, idx, i, html, price, sucessos,
                   falhas, outliers, nFetch, nParse, nSleep, succAttempt, outcome,
                   fetchOk, startLen, exVars>>

RoundsInit ==
    /\ products = 1
    /\ prices \in {<<>>, History100}
    /\ RoundIdle
    /\ ExIdle

RoundsNext ==
    \/ StartRound
    \/ RoundStep
    \/ RunAgain

RoundsSpec == RoundsInit /\ [][RoundsNext]_vars

(***************************************************************************)
(* One call of parse_price_from_html on a document of Docs.                *)
(***************************************************************************)
ExtractInit ==
    /\ products = 0
    /\ prices = <<>>
    /\ RoundIdle
    /\ exDoc \in Docs
    /\ exPool = <<>> /\ exResult = None /\ exDone = FALSE
    /\ CallIdle

Extract ==
    /\ ~exDone
    /\ exPool' = Candidates(exDoc)
    /\ exResult' = parse_price_from_html(exDoc)
    /\ exDone' = TRUE
    /\ UNCHANGED <<exDoc, callArgs, callResult, roundVars>>

ExtractSpec == ExtractInit /\ [][Extract]_vars

(***************************************************************************)
(* One call of is_price_outlier(price, get_price_stats(conn, 1)) on a      *)
(* history of three samples equal to the median m, for a price within      *)
(* Spread hundredths of one of the two bounds.                             *)
(***************************************************************************)
Spread == 100
OutlierMedians == {100 * Scale, 200 * Scale, 300 * Scale, 500 * Scale}
ThreeSamples(m) == <<Row(1, 1, m, 1), Row(2, 1, m, 2), Row(3, 1, m, 3)>>
Probes(m) ==
    {m * UpFactor + d * 10 : d \in (0 - Spread)..Spread}
        \cup {(m * DownFactorPct) \div 100 + d * 10 : d \in (0 - Spread)..Spread}

OutlierInit ==
    /\ products = 0 /\ prices = <<>> /\ RoundIdle
    /\ exDoc = <<>> /\ exPool = <<>> /\ exResult = None /\ exDone = FALSE
    /\ callArgs \in {<<m, p>> : m \in OutlierMedians, p \in UNION {Probes(m2) : m2 \in OutlierMedians}}
    /\ callResult = <<>>

OutlierCall ==
    /\ callResult = <<>>
    /\ callResult' =
          <<is_price_outlier(callArgs[2], get_price_stats(ThreeSamples(callArgs[1]), 1))>>
    /\ UNCHANGED <<callArgs, exDoc, exPool, exResult, exDone, roundVars>>

OutlierSpec == OutlierInit /\ [][OutlierCall]_vars

(***************************************************************************)
(* get_price_stats on its own: one call on a table of product 1 and, at    *)
(* the null rows, of product 2.  The table is, oldest first, a run of      *)
(* positive prices (101.00, 102.00, ...), a run of rows of price 0.0, a    *)
(* run of NULL rows of product 1 each followed by a row of product 2, and  *)
(* a run of positive prices (201.00, 202.00, ...); the dates are the       *)
(* positions, so no two rows share a date.                                 *)
(***************************************************************************)
MaxOld == 3
MaxZero == 31
MaxNull == 1
MaxNew == 31

StatsTable(a, z, u, b) ==
    [k \in 1..(a + z + 2 * u + b) |->
        IF k <= a THEN Row(k, 1, (100 + k) * Scale, k)
        ELSE IF k <= a + z THEN Row(k, 1, 0, k)
        ELSE IF k <= a + z + 2 * u
             THEN IF (k - a - z) % 2 = 1 THEN Row(k, 1, None, k)
                  ELSE Row(k, 2, 50 * Scale, k)
        ELSE Row(k, 1, (200 + k - a - z - 2 * u) * Scale, k)]

StatsInit ==
    /\ products = 0 /\ prices = <<>> /\ RoundIdle
    /\ exDoc = <<>> /\ exPool = <<>> /\ exResult = None /\ exDone = FALSE
    /\ callArgs \in {<<StatsTable(a, z, u, b), 1>> :
                        a \in 0..MaxOld, z \in 0..MaxZero,
                        u \in 0..MaxNull, b \in 0..MaxNew}
    /\ callResult = <<>>

StatsCall ==
    /\ callResult = <<>>
    /\ callResult' = <<get_price_stats(callArgs[1], callArgs[2])>>
    /\ UNCHANGED <<callArgs, exDoc, exPool, exResult, exDone, roundVars>>

StatsSpec == StatsInit /\ [][StatsCall]_vars

(***************************************************************************)
(* Properties.                                                             *)
(***************************************************************************)
\* The rows this round appended, and those of product p among them.
Appended == SubSeq(prices, startLen + 1, Len(prices))
RowsFor(p) == SelectSeq(Appended, LAMBDA r : r.product_id = p)
Resolved(p) == outcome[p] \in {"ok", "outlier"}
CountOutcome(o) == Cardinality({p \in ProductIds : outcome[p] = o})

C4_AtMostMaxAttempts ==
    /\ nFetch <= Attempts /\ nParse <= Attempts /\ nParse <= nFetch
    /\ i <= Attempts
    /\ (pc = "returned" /\ succAttempt = 0) => (price = None /\ nFetch = Attempts)
    /\ (pc = "raised") => succAttempt # 0

\* A call ended in the terminal failure after three fetched pages without a
\* price.
C4_Witness ==
    pc = "returned" /\ price = None /\ nFetch = Attempts /\ nParse = Attempts

\* C5: once an attempt's extraction gave a valid price, the call has returned
\* that price and the successful attempt is the last one performed: the
\* fetches of the call are as many as that attempt's number, the delays one
\* less, and no attempt follows.
C5_SuccessEndsCall ==
    succAttempt # 0 =>
        /\ pc \in {"returned", "insert", "raised"}
        /\ price # None
        /\ i = succAttempt
        /\ nFetch = succAttempt
        /\ nSleep = succAttempt - 1
        /\ nParse <= succAttempt

\* The call succeeded on its last permitted attempt, after a network failure
\* and an extraction failure.
C5_Witness ==
    pc = "returned" /\ succAttempt = Attempts /\ nParse = 2 /\ price = 100 * Scale

\* C6: when the round has returned, every product of the list has an outcome,
\* a product none of whose fetches returned a page is failed, and if exactly
\* one product is such and all the others resolved, the failed counter is 1.
C6_OneFailureDoesNotStopTheRound ==
    pc = "done" =>
        /\ \A p \in ProductIds : outcome[p] # "none"
        /\ \A p \in ProductIds : ~fetchOk[p] => outcome[p] = "failed"
        /\ (\E p \in ProductIds :
               /\ ~fetchOk[p]
               /\ \A q \in ProductIds \ {p} : Resolved(q)) => falhas = 1

\* The second of three products never answered; the first and the third
\* resolved.
C6_Witness ==
    /\ pc = "done" /\ products = 3 /\ falhas = 1
    /\ ~fetchOk[2] /\ outcome[2] = "failed"
    /\ Resolved(1) /\ Resolved(3)

\* C7 as stated: a failing storage write is caught for its row; no exception
\* leaves the round, which goes on with the remaining products.
C7_WriteFailureIsCaught ==
    pc # "raised"

\* C8: under LiveSpec no exception leaves the round, and a round that has
\* started eventually returns with an outcome for every product of the list.
RoundRunning == pc \in {"fetch", "parse", "sleep", "returned", "insert"}
RoundComplete == pc = "done" /\ \A p \in ProductIds : outcome[p] # "none"
C8_RoundCompletes ==
    /\ [](pc # "raised")
    /\ RoundRunning ~> RoundComplete

\* A round ended in which no product ever answered.
C8_Witness ==
    /\ pc = "done" /\ products = NumProducts /\ falhas = NumProducts
    /\ \A p \in ProductIds : ~fetchOk[p]

\* The valid price values that appear in a document: the value of every
\* price block and every "R$"-marked value of every text, above one.
TextsOf(doc) ==
    {doc[k].text : k \in 1..Len(doc)} \cup {doc[k].off : k \in 1..Len(doc)}
        \cup {PageText(doc)}
MarkedValues(t) == IF t = NoSpan THEN {} ELSE ValuesOf(MarkedMatches(t, 1))
NumberValues(t) == IF t = NoSpan THEN {} ELSE ValuesOf(NumberMatches(t, 1))
BlockValues(doc) ==
    {parse_price_from_price_block(doc[k].whole, doc[k].frac) : k \in 1..Len(doc)} \ {None}
ValidValues(doc) ==
    {v \in BlockValues(doc) \cup UNION {MarkedValues(t) : t \in TextsOf(doc)} : v > Scale}

\* C9 as stated: the extractor's result is the minimum of all valid price
\* values that appear in the document, and it fails only without one.
C9_ResultIsMinimumOfAllValues ==
    exDone =>
        exResult = IF ValidValues(exDoc) = {} THEN None ELSE Min(ValidValues(exDoc))

\* Every number the extractor's scans read in a document: the "R$"-marked
\* and the unmarked numbers of every text, and the "R$ whole,fraction" string
\* of every price block.
BlockStrings(doc) ==
    {BlockPriceStr(doc[k].whole, doc[k].frac) :
        k \in {j \in 1..Len(doc) : doc[j].whole # NoSpan}}
PriceLike(doc) ==
    UNION {MarkedValues(t) \cup NumberValues(t) : t \in TextsOf(doc) \cup BlockStrings(doc)}

OutlierCalled(m, p) == callResult # <<>> /\ callArgs = <<m * Scale, p * Scale>>
C11_OutlierExactlyBeyondBounds ==
    /\ callResult # <<>> =>
          callResult[1] = (\/ callArgs[2] > 3 * callArgs[1]
                           \/ 100 * callArgs[2] < 33 * callArgs[1])
    /\ \A p \in {301, 32} : OutlierCalled(100, p) => callResult[1]
    /\ \A p \in {299, 300, 33, 34} : OutlierCalled(100, p) => ~callResult[1]

\* The price 300.00, equal to the upper bound of the median 100.00, was
\* accepted.
C11_Witness == OutlierCalled(100, 300) /\ callResult = <<FALSE>>

\* The table as the round found it, and the rows of product p in a table
\* whose price is neither NULL nor at most zero.
BeforeRound == SubSeq(prices, 1, startLen)
Qualifying(table, p) ==
    SelectSeq(table, LAMBDA r : r.product_id = p /\ r.price # None /\ r.price > 0)

\* C12: a product with fewer than 3 qualifying samples when the round began
\* has no statistics, no price is an outlier against that, and once its
\* price is resolved in the round it is accepted: its outcome is ok and its
\* row is written.
C12_FewSamplesNeverRejected ==
    \A p \in ProductIds :
        Len(Qualifying(BeforeRound, p)) < 3 =>
            /\ get_price_stats(BeforeRound, p) = NoStats
            /\ \A v \in {Scale, 100 * Scale, 500 * Scale, 2116050} :
                   ~is_price_outlier(v, get_price_stats(BeforeRound, p))
            /\ outcome[p] # "outlier"
            /\ Resolved(p) => outcome[p] = "ok" /\ Len(RowsFor(p)) = 1

\* Product 1 has two samples of 100.00 among four rows; the round read
\* 500.00 for it and stored it.
C12_Witness ==
    /\ pc = "done" /\ BeforeRound = HistoryShort
    /\ outcome[1] = "ok"
    /\ \E k \in 1..Len(Appended) :
          Appended[k].product_id = 1 /\ Appended[k].price = 500 * Scale

\* The prices of the min(30, n) most recent of the n qualifying rows of
\* product p, and the statistics over them.
RecentQualifying(table, p) ==
    LET q == Qualifying(table, p)
        Newer(r) ==
            {k \in 1..Len(q) :
                \/ q[k].date > r.date
                \/ q[k].date = r.date /\ q[k].id < r.id}
        recent == SelectSeq(q, LAMBDA r : Cardinality(Newer(r)) < 30)
    IN  [k \in 1..Len(recent) |-> recent[k].price]
StatsOverQualifying(table, p) ==
    LET v == RecentQualifying(table, p)
    IN  IF Len(Qualifying(table, p)) < 3 THEN NoStats
        ELSE [count |-> Len(v), median |-> MedianOf(v), sum |-> SumTo(v, Len(v)),
              min |-> Min({v[k] : k \in 1..Len(v)}),
              max |-> Max({v[k] : k \in 1..Len(v)})]

\* C13: for any table, the statistics of a product are those of the
\* min(30, n) most recent of its n rows with a non-null price above zero,
\* and there are none exactly when n < 3; rows with a null or non-positive
\* price take no place in the window.
C13_WindowOverQualifyingRows ==
    callResult # <<>> =>
        callResult[1] = StatsOverQualifying(callArgs[1], callArgs[2])

\* C14: over any sequence of rounds, a failed collection and a reading
\* flagged as an outlier leave the storage as it is, so they are in no later
\* statistics; a reading is flagged exactly when it is an outlier against the
\* statistics of the storage as it is at that evaluation; a row enters the
\* storage only as the reading that was just accepted against it; and the
\* values of the product's statistics grow by that reading and nothing else.
C14_OnlyAcceptedSamplesInStats ==
    [][/\ (pc = "returned" /\ price = None) =>
              prices' = prices /\ outcome'[idx] = "failed"
       /\ (pc = "returned" /\ price # None) =>
              /\ prices' = prices
              /\ (outcome'[idx] = "outlier")
                    = is_price_outlier(price, get_price_stats(prices, idx))
              /\ (outcome'[idx] # "outlier") = (pc' = "insert")
       /\ prices' # prices =>
              /\ pc = "insert" /\ outcome'[idx] = "ok"
              /\ prices' = Append(prices, Row(Len(prices) + 1, idx, price, now))
              /\ ~is_price_outlier(price, get_price_stats(prices, idx))
       /\ StatsRows(prices', 1) =
              IF prices' # prices THEN Append(StatsRows(prices, 1), price)
              ELSE StatsRows(prices, 1)]_vars

\* C15: the round's timestamp is the clock at its start, before the first
\* product, it does not change while the round runs, however many delays
\* pass, and every row the round has written carries it.
C15_OneTimestampPerRound ==
    [][/\ (pc = "idle" /\ products > 0) => now' = clock' /\ prices' = prices
       /\ pc # "idle" => now' = now
       /\ \A k \in (startLen' + 1)..Len(prices') : prices'[k].date = now']_vars

\* Two products were stored, each at its third attempt: two delays passed
\* before the first row and two more before the second.
C15_Witness ==
    /\ pc = "done" /\ Len(Appended) = 2 /\ products = 2
    /\ clock = now + 4
    /\ Appended[1].date = now /\ Appended[2].date = now

\* C16: over any sequence of rounds, every step leaves each row of the
\* prices table where it was and as it was (id, product_id, price, date), a
\* step changes the table only by adding one row at its end, and the
\* products table stays as it is.
C16_PricesAppendOnly ==
    [][/\ Len(prices') >= Len(prices)
       /\ SubSeq(prices', 1, Len(prices)) = prices
       /\ Len(prices') <= Len(prices) + 1
       /\ products' = products]_vars

\* Two rounds each stored a row after the three rows that were there.
C16_Witness ==
    /\ rounds = 2 /\ pc = "done"
    /\ Len(prices) = Len(History100) + 2
    /\ SubSeq(prices, 1, Len(History100)) = History100
    /\ prices[Len(prices)].date > prices[Len(prices) - 1].date

\* C17 as stated: for every string "R$ " + grouped integer part + "," + two
\* digits, the parser returns the number the string denotes.
C17_PriceStringDenotation ==
    callResult # <<>> =>
        /\ callResult[1] = callArgs[1] * 10
        /\ callResult[2] = callArgs[1] * 10

\* C17: for every such string that denotes more than 1, extract_price and the
\* price block parser return exactly the number it denotes, the separators
\* of thousands removed and the comma read as the decimal point; for a
\* string that denotes at most 1 they return None.
C17_PriceStringDenotationAboveOne ==
    callResult # <<>> =>
        LET c == callArgs[1]
            expected == IF c > 100 THEN c * 10 ELSE None
        IN  /\ callResult[1] = expected
            /\ callResult[2] = expected
            /\ c = 123456 => PriceString(c) = RS \o SP \o N1234

\* "R$ 1.234,56" was parsed to 1234.56.
C17_Witness == callArgs = <<123456>> /\ callResult = <<1234560, 1234560>>

C19_ReturnedPriceAboveOne ==
    /\ (pc \in {"returned", "insert"} /\ price # None) => price > Scale
    /\ \A k \in 1..Len(Appended) : Appended[k].price > Scale

\* C20 as stated: the step that finishes a product and goes to the first
\* fetch of the next one waits a delay.
C20_DelayBetweenProducts ==
    [][(pc \in {"returned", "insert"} /\ pc' = "fetch") => clock' > clock]_vars

\* C20: the step that finishes a product goes to the first attempt of the
\* next product without any delay, and the clock of a round advances only
\* in the delays after an attempt that gave no valid price.
C20_NoDelayBetweenProducts ==
    [][/\ (pc \in {"returned", "insert"} /\ pc' = "fetch") =>
              /\ clock' = clock
              /\ idx' = idx + 1 /\ i' = 1 /\ nSleep' = 0 /\ nFetch' = 0
              /\ outcome[idx] = "none" /\ outcome'[idx] # "none"
       /\ (pc # "idle" /\ clock' # clock) =>
              pc = "sleep" /\ clock' = clock + 1 /\ price = None]_vars

\* The first product was stored at its first attempt and the second
\* product's first fetch is due at the instant the round began.
C20_Witness ==
    /\ pc = "fetch" /\ idx = 2 /\ i = 1 /\ nFetch = 0
    /\ outcome[1] = "ok" /\ Len(Appended) = 1
    /\ clock = now

\* The first round read a price at its first attempt and flagged it against
\* the three samples of 100.00; the second round evaluates 100.00 against
\* the same three samples.
C14_Witness ==
    /\ rounds = 2 /\ pc = "returned" /\ price = 100 * Scale
    /\ now = LastDate(History100) + 2
    /\ prices = History100
    /\ get_price_stats(prices, idx).count = 3

\* The products the round is done with: all of the list when it returned,
\* those before the current one while it runs.
Processed ==
    IF pc = "idle" THEN {}
    ELSE IF pc = "done" THEN ProductIds
    ELSE 1..(idx - 1)

\* C21: within a round each product has at most one outcome: the three
\* counters count the products by their outcome, a product the round is done
\* with has exactly one, a product has at most one row of the round, an
\* outcome once produced stays, and a step increments at most one counter,
\* by one, for the current product and only when it had no outcome yet.
C21_OneOutcomePerProduct ==
    /\ [](/\ sucessos = CountOutcome("ok")
          /\ falhas = CountOutcome("failed")
          /\ outliers = CountOutcome("outlier")
          /\ \A p \in ProductIds : Len(RowsFor(p)) <= 1
          /\ \A p \in Processed : outcome[p] # "none"
          /\ pc = "done" => sucessos + falhas + outliers = products)
    /\ [][pc # "idle" =>
            /\ \A p \in ProductIds : outcome[p] # "none" => outcome'[p] = outcome[p]
            /\ LET before == sucessos + falhas + outliers
                    after == sucessos' + falhas' + outliers'
               IN  /\ after \in {before, before + 1}
                   /\ sucessos' >= sucessos /\ falhas' >= falhas /\ outliers' >= outliers
                   /\ after = before + 1 =>
                         outcome[idx] = "none" /\ outcome'[idx] # "none"]_vars

\* A round of three products ended with one increment of each counter and
\* one row.
C21_Witness ==
    /\ pc = "done" /\ products = 3
    /\ sucessos = 1 /\ falhas = 1 /\ outliers = 1
    /\ Len(Appended) = 1

\* C22: in a call of get_price_with_retries the extractor runs only on a
\* page a fetch returned and an attempt whose fetch failed goes to its delay
\* without an extraction; every fetch but the first comes after as many
\* delays as fetches before it, each delay one tick of the clock; and a call
\* that returns the terminal failure has waited after its last attempt too,
\* as many delays as fetches.
C22_DelayAfterEveryFailedAttempt ==
    /\ [](/\ pc = "parse" => ~Falsy(html)
          /\ pc = "fetch" => nFetch = i - 1 /\ nSleep = nFetch
          /\ pc \in {"parse", "sleep"} => nFetch = i /\ nSleep = nFetch - 1
          /\ (pc = "returned" /\ price = None) =>
                nFetch = Attempts /\ nSleep = Attempts)
    /\ [][/\ pc = "fetch" =>
               /\ nParse' = nParse /\ nSleep' = nSleep /\ clock' = clock
               /\ pc' = IF Falsy(html') THEN "sleep" ELSE "parse"
          /\ nParse' = nParse + 1 => pc = "parse" /\ ~Falsy(html)
          /\ pc = "sleep" => nSleep' = nSleep + 1 /\ clock' = clock + 1
          /\ (pc # "idle" /\ nSleep' # nSleep /\ nSleep' # 0) => pc = "sleep"]_vars

\* The first product's call ended in the terminal failure after two network
\* failures and one page without a price: one extraction, three delays.
C22_Witness ==
    /\ pc = "returned" /\ price = None /\ idx = 1
    /\ nFetch = Attempts /\ nParse = 1 /\ nSleep = Attempts
    /\ clock = now + Attempts

\* C23: the round handles one product at a time, in list order.  While it
\* runs, every product before the current one has its outcome; no product
\* after it has been fetched, decided or written; the rows of the round are
\* in list order; the one response in hand is a page only while the current
\* product's attempt is being parsed.  The current product moves to the next
\* of the list, never back and never past one, only in the step that
\* decides its outcome, and that step holds no response and no undecided
\* write.
C23_OneProductAtATime ==
    /\ [](/\ pc \in {"fetch", "parse", "sleep", "returned", "insert", "raised"} =>
                /\ idx \in ProductIds
                /\ \A p \in ProductIds : p < idx => outcome[p] # "none"
                /\ \A p \in ProductIds :
                      p >= idx => outcome[p] = "none" /\ RowsFor(p) = <<>>
                /\ \A p \in ProductIds : p > idx => ~fetchOk[p]
          /\ \A j, k \in 1..Len(Appended) :
                j < k => Appended[j].product_id < Appended[k].product_id
          /\ ~Falsy(html) => pc = "parse")
    /\ [][pc # "idle" =>
            /\ idx' \in {idx, idx + 1}
            /\ idx' = idx + 1 =>
                  /\ pc \in {"returned", "insert"} /\ pc' = "fetch"
                  /\ outcome'[idx] # "none"
                  /\ Falsy(html) /\ Falsy(html')
                  /\ nFetch' = 0 /\ i' = 1
            /\ fetchOk' # fetchOk =>
                  pc = "fetch" /\ fetchOk' = [fetchOk EXCEPT ![idx] = TRUE]
            /\ prices' # prices =>
                  pc = "insert" /\ prices'[Len(prices')].product_id = idx]_vars

\* The third product is being fetched; the first two have their outcome and
\* their rows, the third nothing yet.
C23_Witness ==
    /\ pc = "fetch" /\ idx = 3 /\ nFetch = 0
    /\ outcome[1] = "ok" /\ outcome[2] = "ok" /\ outcome[3] = "none"
    /\ Len(Appended) = 2 /\ ~fetchOk[3]

\* The values above 1 that the pieces of a text mark with "R$", and the
\* values above 1 of its numbers in text order.
RECURSIVE Flatten(_)
Flatten(ss) == IF ss = <<>> THEN <<>> ELSE Head(ss) \o Flatten(Tail(ss))
MarkedAboveOne(ps) ==
    LET all == Flatten([k \in 1..Len(ps) |-> ps[k].marked])
    IN  {v \in {all[k] : k \in 1..Len(all)} : v > Scale}
NumbersAboveOne(ps) ==
    SelectSeq(Flatten([k \in 1..Len(ps) |-> ps[k].numbers]), LAMBDA v : v > Scale)

\* C24: on a text with one or more "R$"-marked values above 1 extract_price
\* returns the largest of them; without any it returns the first number
\* above 1 of the text; it returns None for the empty text and for a text
\* with no value above 1.
C24_LargestMarkedElseFirstNumber ==
    callResult # <<>> =>
        LET marked == MarkedAboveOne(callArgs)
            numbers == NumbersAboveOne(callArgs)
        IN  callResult[1] =
                IF marked # {} THEN Max(marked)
                ELSE IF numbers # <<>> THEN numbers[1]
                ELSE None

\* "R$ 158,00 R$ 1.234,56 500,00": the larger marked value, not the first
\* and not the unmarked one.
C24_Witness ==
    /\ Len(callArgs) = 3
    /\ TextOfPieces(callArgs) = RS \o SP \o N158 \o SP \o RS \o SP \o N1234 \o SP \o N500
    /\ callResult = <<1234560>>

\* C25: at every point of a round the three counters add up to the number
\* of products the round is done with, which is the whole list when the
\* round has returned, and no step of the round lowers a counter.
C25_CountersAddUpToProcessed ==
    /\ [](/\ sucessos + falhas + outliers = Cardinality(Processed)
          /\ pc = "done" => sucessos + falhas + outliers = products
          /\ pc \in {"fetch", "parse", "sleep", "returned", "insert"} =>
                sucessos + falhas + outliers = idx - 1)
    /\ [][pc # "idle" =>
            sucessos' >= sucessos /\ falhas' >= falhas /\ outliers' >= outliers]_vars

\* The third product's page is about to be parsed; one product failed and
\* one was flagged before it.
C25_Witness ==
    /\ pc = "parse" /\ idx = 3
    /\ sucessos = 0 /\ falhas = 1 /\ outliers = 1

\* C26: the ok counter is the number of rows the round has appended; each of
\* them has a non-null price that the outlier filter passed against the
\* table as it was before the row; a product is counted ok exactly when its
\* row is in the table, and a product whose write raised has neither the row
\* nor the count.
C26_OkCountsCommittedRows ==
    /\ sucessos = Len(Appended)
    /\ \A k \in 1..Len(Appended) :
          /\ Appended[k].price # None
          /\ ~is_price_outlier(Appended[k].price,
                               get_price_stats(SubSeq(prices, 1, startLen + k - 1),
                                               Appended[k].product_id))
    /\ \A p \in ProductIds : (outcome[p] = "ok") = (Len(RowsFor(p)) = 1)
    /\ pc = "raised" => outcome[idx] = "none" /\ RowsFor(idx) = <<>>

\* The first product's row was written and counted; the write of the second
\* raised: one row, ok counter 1.
C26_Witness ==
    /\ pc = "raised" /\ idx = 2
    /\ sucessos = 1 /\ Len(Appended) = 1 /\ Appended[1].product_id = 1

\* C27: every statistics record get_price_stats returns has 3 <= count <= 30
\* and 0 < min <= median <= max, with min <= mean <= max (mean = sum /
\* count); so the test "median <= 0" of is_price_outlier is false on every
\* record the round can hand to it, and a price of four medians is flagged
\* against each.
C27_SnapshotWellFormed ==
    (callResult # <<>> /\ callResult[1] # NoStats) =>
        LET s == callResult[1]
        IN  /\ 3 <= s.count /\ s.count <= 30
            /\ 0 < s.min /\ s.min <= s.median /\ s.median <= s.max
            /\ s.count * s.min <= s.sum /\ s.sum <= s.count * s.max
            /\ ~(s.median <= 0)
            /\ is_price_outlier(4 * s.median, s)

\* Thirty-six rows of the product, two of price 0.0 and one NULL among the
\* older ones: the record is over the thirty newest, 201.00 to 230.00.
C27_Witness ==
    /\ callArgs = <<StatsTable(3, 2, 1, 30), 1>>
    /\ callResult # <<>>
    /\ callResult[1].count = 30
    /\ callResult[1].min = 201 * Scale /\ callResult[1].max = 230 * Scale
    /\ callResult[1].median = 215500

\* The history of 100.00 is as it was, and its median is 100.00.
HistoryKept ==
    /\ prices = History100
    /\ get_price_stats(prices, 1).median = 100 * Scale
    /\ outcome[1] # "ok"
\* The price a call returned is above 3.0 times 100.00; is below 0.33 times.
ReadsAbove == (pc = "returned" /\ price # None) => price > 3 * (100 * Scale)
ReadsBelow == (pc = "returned" /\ price # None) => 100 * price < 33 * (100 * Scale)

\* C28: from a history of three samples with median 100.00, if in every
\* round the price read is above 3.0 * 100.00, then in no round a sample is
\* accepted and the history and its median stay as they were for ever; the
\* same if in every round the price read is below 0.33 * 100.00.
C28_FilterLockIn ==
    /\ (prices = History100 /\ []ReadsAbove) => []HistoryKept
    /\ (prices = History100 /\ []ReadsBelow) => []HistoryKept

\* The third round ended as the two before it, each at its first attempt:
\* 500.00 read, flagged, the history of 100.00 untouched.
C28_Witness ==
    /\ rounds = 3 /\ pc = "done"
    /\ now = LastDate(History100) + 3
    /\ price = 500 * Scale /\ outcome[1] = "outlier"
    /\ HistoryKept

\* The rows of a table with the id of product p.
OwnRows(table, p) == SelectSeq(table, LAMBDA r : r.product_id = p)

\* C29: the statistics of a product are those of its own rows alone; the
\* step that decides on a returned price flags it exactly when it is an
\* outlier against the product's own rows; a step of the round changes the
\* outcome of no product but the current one, writes a row only with the
\* current product's id, and leaves the rows and the statistics of every
\* other product as they were.
C29_PerProductIsolation ==
    /\ [](\A p \in ProductIds :
             get_price_stats(prices, p) = get_price_stats(OwnRows(prices, p), p))
    /\ [][pc # "idle" =>
            /\ \A q \in (1..NumProducts) \ {idx} : outcome'[q] = outcome[q]
            /\ prices' # prices =>
                  \A q \in (1..NumProducts) \ {idx} :
                      /\ OwnRows(prices', q) = OwnRows(prices, q)
                      /\ get_price_stats(prices', q) = get_price_stats(prices, q)
            /\ (pc = "returned" /\ price # None) =>
                  (outcome'[idx] = "outlier")
                      = is_price_outlier(price, get_price_stats(OwnRows(prices, idx), idx))
            /\ prices' # prices =>
                  /\ prices' = Append(prices, prices'[Len(prices')])
                  /\ prices'[Len(prices')].product_id = idx]_vars

\* On the mixed history the first product's reading was flagged against its
\* median of 100.00 and the second product's 500.00 was stored, its own
\* median being 500.00.
C29_Witness ==
    /\ pc = "done" /\ products = 2 /\ BeforeRound = HistoryMixed
    /\ outcome[1] = "outlier" /\ outcome[2] = "ok"
    /\ price = 500 * Scale
    /\ Len(Appended) = 1 /\ Appended[1].product_id = 2
    /\ get_price_stats(BeforeRound, 1).median = 100 * Scale
    /\ get_price_stats(BeforeRound, 2).median = 500 * Scale
====
